---- MODULE Spec2Model ----
(***************************************************************************)
(* State-machine model of the go-ipld-prime sources:                       *)
(*   node.go                          the Node / MapIterator contract      *)
(*   node/gendemo/map_K2_T2.go        generated nodes K2, T2, their        *)
(*                                    iterators and assemblers             *)
(*   traversal/selector/exploreIndex.go   the ExploreIndex selector        *)
(*                                                                         *)
(* A Go panic is modelled as an outcome of the call ("panic" with its      *)
(* message): every assignment the method made before panicking is kept,    *)
(* as it is for a caller that recovers.                                    *)
(***************************************************************************)
EXTENDS Integers, Sequences, FiniteSets, TLC

(***************************************************************************)
(* Bounds of the model.                                                    *)
(***************************************************************************)
\* the list indices a selector spec can name are 0..MaxIndex
MaxIndex == 2
\* longest string path segment, in characters
MaxSegLen == 2
\* number of MapIterator slots held by the caller
NumItrs == 2
\* Next calls made on one iterator beyond the length of its node
MaxOverread == 2

ItrIds == 1..NumItrs

(***************************************************************************)
(* ReprKind and ErrWrongKind (package ipld).                               *)
(***************************************************************************)
ReprKind_Map == "map"
ReprKind_List == "list"
ReprKind_Bool == "bool"
ReprKind_Int == "int"
ReprKind_Float == "float"
ReprKind_String == "string"
ReprKind_Bytes == "bytes"
ReprKind_Link == "link"
ReprKind_Null == "null"

ReprKindSet_JustList == {ReprKind_List}
ReprKindSet_JustBool == {ReprKind_Bool}
ReprKindSet_JustInt == {ReprKind_Int}
ReprKindSet_JustFloat == {ReprKind_Float}
ReprKindSet_JustString == {ReprKind_String}
ReprKindSet_JustBytes == {ReprKind_Bytes}
ReprKindSet_JustLink == {ReprKind_Link}

\* the nil interface value
Nil == [kind |-> "nil"]
\* the nil error
NoErr == [err |-> "nil"]

ErrWrongKind(typeName, methodName, appropriateKind, actualKind) ==
    [err |-> "ErrWrongKind", TypeName |-> typeName, MethodName |-> methodName,
     AppropriateKind |-> appropriateKind, ActualKind |-> actualKind]
ErrIteratorOverread == [err |-> "ErrIteratorOverread"]
ErrRepeatedMapKey(k) == [err |-> "ErrRepeatedMapKey", Key |-> k]
ErrNoSuchField == [err |-> "errorString", msg |-> "no such field"]

(***************************************************************************)
(* The values of the generated types.                                      *)
(*   type K2 struct{ u, i plainString }                                    *)
(*   type T2 struct{ a, b, c, d plainInt }                                 *)
(***************************************************************************)
StrVals == {"x", "y"}
IntVals == {0, 1}
K2Vals == [u : StrVals, i : StrVals]
T2Vals == {[a |-> n, b |-> n + 1, c |-> n + 2, d |-> n + 3] : n \in IntVals}

plainString(s) == [kind |-> ReprKind_String, sval |-> s]
plainInt(n) == [kind |-> ReprKind_Int, ival |-> n]
\* &n.f : a pointer to field f of the node of type typ
FieldPtr(typ, f) == [kind |-> "ptr", of |-> typ, field |-> f]

\* a completed node: its concrete type and its value
Nodes == {[typ |-> "K2", val |-> v] : v \in K2Vals}
         \cup {[typ |-> "T2", val |-> v] : v \in T2Vals}

VARIABLES
    nd,       \* the completed node (a *K2 or a *T2) the calls are made on
    itr,      \* itr[id]: the MapIterator over nd in slot id: [typ, idx]
    hist,     \* hist[id]: history of slot id: Next calls made, successes, last Next result
    ret,      \* the result of the last Node / MapIterator call
    ma,       \* the _K2__Assembler struct: [state, isset_u, isset_i]
    w,        \* *ma.w: the K2 node under construction
    tw,       \* *ta.w of the _T2__Assembler: the T2 node under construction
    aret,     \* the result of the last assembler call
    sin,      \* the node last handed to ParseExploreIndex
    sres,     \* what that ParseExploreIndex call returned: [sel, e]
    sret      \* the result of the last Selector call

nodeVars == <<nd, itr, hist, ret>>
asmVars == <<ma, w, tw, aret>>
selVars == <<sin, sres, sret>>
vars == <<nd, itr, hist, ret, ma, w, tw, aret, sin, sres, sret>>


(***************************************************************************)
(* Zero values returned beside an error by the scalar accessors.           *)
(***************************************************************************)
GoBool(b) == [go |-> "bool", b |-> b]
GoInt(n) == [go |-> "int", n |-> n]
GoFloat(n) == [go |-> "float64", n |-> n]
GoString(s) == [go |-> "string", s |-> s]
GoNil == [go |-> "nil"]

(***************************************************************************)
(* K2: the read-only Node methods.                                         *)
(***************************************************************************)
K2_ReprKind == ReprKind_Map

\* LookupString that answers "u" with the field i
K2_LookupString_WrongField(key) ==
    CASE key = "u" -> [node |-> FieldPtr("K2", "i"), e |-> NoErr]
      [] key = "i" -> [node |-> FieldPtr("K2", "i"), e |-> NoErr]
      [] OTHER -> [node |-> Nil, e |-> ErrNoSuchField]

K2_LookupString(key) ==
    CASE key = "u" -> [node |-> FieldPtr("K2", "u"), e |-> NoErr]
      [] key = "i" -> [node |-> FieldPtr("K2", "i"), e |-> NoErr]
      [] OTHER -> [node |-> Nil, e |-> ErrNoSuchField]

K2_LookupIndex(idx) ==
    [node |-> Nil,
     e |-> ErrWrongKind("K2", "LookupIndex", ReprKindSet_JustList, ReprKind_Map)]

K2_ListIterator == Nil

K2_Length == -1

K2_IsUndefined == FALSE

K2_IsNull == FALSE

K2_AsBool ==
    [val |-> GoBool(FALSE),
     e |-> ErrWrongKind("K2", "AsBool", ReprKindSet_JustBool, ReprKind_Map)]
K2_AsInt ==
    [val |-> GoInt(0),
     e |-> ErrWrongKind("K2", "AsInt", ReprKindSet_JustFloat, ReprKind_Map)]
K2_AsFloat ==
    [val |-> GoFloat(0),
     e |-> ErrWrongKind("K2", "AsFloat", ReprKindSet_JustFloat, ReprKind_Map)]
K2_AsString ==
    [val |-> GoString(""),
     e |-> ErrWrongKind("K2", "AsString", ReprKindSet_JustString, ReprKind_Map)]
K2_AsBytes ==
    [val |-> GoNil,
     e |-> ErrWrongKind("K2", "AsBytes", ReprKindSet_JustBytes, ReprKind_Map)]
K2_AsLink ==
    [val |-> GoNil,
     e |-> ErrWrongKind("K2", "AsLink", ReprKindSet_JustLink, ReprKind_Map)]

(***************************************************************************)
(* _K2_MapIterator{n, idx}.  Next returns the new cursor beside (k, v,     *)
(* error); panic is the message of the panic raised, "none" otherwise.     *)
(***************************************************************************)
K2_MapIterator == [typ |-> "K2", idx |-> 0]

\* the overread guard off by one: idx > 2
K2_MapIterator_Next_GuardOffByOne(it) ==
    IF it.idx > 2
    THEN [idx |-> it.idx, k |-> Nil, v |-> Nil, e |-> ErrIteratorOverread, panic |-> "none"]
    ELSE CASE it.idx = 0 ->
                [idx |-> it.idx + 1, k |-> plainString("u"), v |-> FieldPtr("K2", "u"),
                 e |-> NoErr, panic |-> "none"]
           [] it.idx = 1 ->
                [idx |-> it.idx + 1, k |-> plainString("i"), v |-> FieldPtr("K2", "i"),
                 e |-> NoErr, panic |-> "none"]
           [] OTHER ->
                [idx |-> it.idx, k |-> Nil, v |-> Nil, e |-> NoErr, panic |-> "unreachable"]

K2_MapIterator_Next(it) ==
    IF it.idx >= 2
    THEN [idx |-> it.idx, k |-> Nil, v |-> Nil, e |-> ErrIteratorOverread, panic |-> "none"]
    ELSE CASE it.idx = 0 ->
                [idx |-> it.idx + 1, k |-> plainString("u"), v |-> FieldPtr("K2", "u"),
                 e |-> NoErr, panic |-> "none"]
           [] it.idx = 1 ->
                [idx |-> it.idx + 1, k |-> plainString("i"), v |-> FieldPtr("K2", "i"),
                 e |-> NoErr, panic |-> "none"]
           [] OTHER ->
                [idx |-> it.idx, k |-> Nil, v |-> Nil, e |-> NoErr, panic |-> "unreachable"]

\* Done that reports the end one entry early
K2_MapIterator_Done_OneEarly(it) == it.idx >= 1

K2_MapIterator_Done(it) == it.idx >= 2

(***************************************************************************)
(* T2: the read-only Node methods.                                         *)
(***************************************************************************)
T2_ReprKind == ReprKind_Map

T2_LookupString(key) ==
    CASE key = "a" -> [node |-> FieldPtr("T2", "a"), e |-> NoErr]
      [] key = "b" -> [node |-> FieldPtr("T2", "b"), e |-> NoErr]
      [] key = "c" -> [node |-> FieldPtr("T2", "c"), e |-> NoErr]
      [] key = "d" -> [node |-> FieldPtr("T2", "d"), e |-> NoErr]
      [] OTHER -> [node |-> Nil, e |-> ErrNoSuchField]

T2_LookupIndex(idx) ==
    [node |-> Nil,
     e |-> ErrWrongKind("T2", "LookupIndex", ReprKindSet_JustList, ReprKind_Map)]

T2_ListIterator == Nil

T2_Length == -1

T2_IsUndefined == FALSE

T2_IsNull == FALSE

T2_AsBool ==
    [val |-> GoBool(FALSE),
     e |-> ErrWrongKind("T2", "AsBool", ReprKindSet_JustBool, ReprKind_Map)]
T2_AsInt ==
    [val |-> GoInt(0),
     e |-> ErrWrongKind("T2", "AsInt", ReprKindSet_JustFloat, ReprKind_Map)]
T2_AsFloat ==
    [val |-> GoFloat(0),
     e |-> ErrWrongKind("T2", "AsFloat", ReprKindSet_JustFloat, ReprKind_Map)]
T2_AsString ==
    [val |-> GoString(""),
     e |-> ErrWrongKind("T2", "AsString", ReprKindSet_JustString, ReprKind_Map)]
T2_AsBytes ==
    [val |-> GoNil,
     e |-> ErrWrongKind("T2", "AsBytes", ReprKindSet_JustBytes, ReprKind_Map)]
T2_AsLink ==
    [val |-> GoNil,
     e |-> ErrWrongKind("T2", "AsLink", ReprKindSet_JustLink, ReprKind_Map)]

(***************************************************************************)
(* _T2_MapIterator{n, idx}.                                                *)
(***************************************************************************)
T2_MapIterator == [typ |-> "T2", idx |-> 0]

\* Next that advances the cursor on an overread too
T2_MapIterator_Next_OverreadAdvances(it) ==
    IF it.idx >= 4
    THEN [idx |-> it.idx + 1, k |-> Nil, v |-> Nil, e |-> ErrIteratorOverread,
          panic |-> "none"]
    ELSE [idx |-> it.idx + 1,
          k |-> plainString(<<"a", "b", "c", "d">>[it.idx + 1]),
          v |-> FieldPtr("T2", <<"a", "b", "c", "d">>[it.idx + 1]),
          e |-> NoErr, panic |-> "none"]

\* Next that yields field c before field b
T2_MapIterator_Next_YieldsCBeforeB(it) ==
    IF it.idx >= 4
    THEN [idx |-> it.idx, k |-> Nil, v |-> Nil, e |-> ErrIteratorOverread, panic |-> "none"]
    ELSE CASE it.idx = 0 ->
                [idx |-> it.idx + 1, k |-> plainString("a"), v |-> FieldPtr("T2", "a"),
                 e |-> NoErr, panic |-> "none"]
           [] it.idx = 1 ->
                [idx |-> it.idx + 1, k |-> plainString("c"), v |-> FieldPtr("T2", "c"),
                 e |-> NoErr, panic |-> "none"]
           [] it.idx = 2 ->
                [idx |-> it.idx + 1, k |-> plainString("b"), v |-> FieldPtr("T2", "b"),
                 e |-> NoErr, panic |-> "none"]
           [] it.idx = 3 ->
                [idx |-> it.idx + 1, k |-> plainString("d"), v |-> FieldPtr("T2", "d"),
                 e |-> NoErr, panic |-> "none"]
           [] OTHER ->
                [idx |-> it.idx, k |-> Nil, v |-> Nil, e |-> NoErr, panic |-> "unreachable"]

T2_MapIterator_Next(it) ==
    IF it.idx >= 4
    THEN [idx |-> it.idx, k |-> Nil, v |-> Nil, e |-> ErrIteratorOverread, panic |-> "none"]
    ELSE CASE it.idx = 0 ->
                [idx |-> it.idx + 1, k |-> plainString("a"), v |-> FieldPtr("T2", "a"),
                 e |-> NoErr, panic |-> "none"]
           [] it.idx = 1 ->
                [idx |-> it.idx + 1, k |-> plainString("b"), v |-> FieldPtr("T2", "b"),
                 e |-> NoErr, panic |-> "none"]
           [] it.idx = 2 ->
                [idx |-> it.idx + 1, k |-> plainString("c"), v |-> FieldPtr("T2", "c"),
                 e |-> NoErr, panic |-> "none"]
           [] it.idx = 3 ->
                [idx |-> it.idx + 1, k |-> plainString("d"), v |-> FieldPtr("T2", "d"),
                 e |-> NoErr, panic |-> "none"]
           [] OTHER ->
                [idx |-> it.idx, k |-> Nil, v |-> Nil, e |-> NoErr, panic |-> "unreachable"]

T2_MapIterator_Done(it) == it.idx >= 4

(***************************************************************************)
(* Dispatch through the ipld.Node / ipld.MapIterator interfaces.           *)
(***************************************************************************)
NodeTypes == {"K2", "T2"}
Accessors == {"AsBool", "AsInt", "AsFloat", "AsString", "AsBytes", "AsLink"}
LookupKeys == {"u", "i", "a", "b", "c", "d", "z"}

Node_MapIterator(typ) == IF typ = "K2" THEN K2_MapIterator ELSE T2_MapIterator
Node_ReprKind(typ) == IF typ = "K2" THEN K2_ReprKind ELSE T2_ReprKind
Node_Length(typ) == IF typ = "K2" THEN K2_Length ELSE T2_Length
Node_LookupIndex(typ, idx) ==
    IF typ = "K2" THEN K2_LookupIndex(idx) ELSE T2_LookupIndex(idx)
Node_ListIterator(typ) == IF typ = "K2" THEN K2_ListIterator ELSE T2_ListIterator
Node_IsUndefined(typ) == IF typ = "K2" THEN K2_IsUndefined ELSE T2_IsUndefined
Node_IsNull(typ) == IF typ = "K2" THEN K2_IsNull ELSE T2_IsNull
Node_LookupString(typ, key) ==
    IF typ = "K2" THEN K2_LookupString(key) ELSE T2_LookupString(key)
Node_As(typ, m) ==
    IF typ = "K2"
    THEN CASE m = "AsBool" -> K2_AsBool [] m = "AsInt" -> K2_AsInt
           [] m = "AsFloat" -> K2_AsFloat [] m = "AsString" -> K2_AsString
           [] m = "AsBytes" -> K2_AsBytes [] m = "AsLink" -> K2_AsLink
    ELSE CASE m = "AsBool" -> T2_AsBool [] m = "AsInt" -> T2_AsInt
           [] m = "AsFloat" -> T2_AsFloat [] m = "AsString" -> T2_AsString
           [] m = "AsBytes" -> T2_AsBytes [] m = "AsLink" -> T2_AsLink
MapIterator_Next(it) ==
    IF it.typ = "K2" THEN K2_MapIterator_Next(it) ELSE T2_MapIterator_Next(it)
MapIterator_Done(it) ==
    IF it.typ = "K2" THEN K2_MapIterator_Done(it) ELSE T2_MapIterator_Done(it)

\* the number of entries of the node, by its schema (struct fields)
NumFields(typ) == IF typ = "K2" THEN 2 ELSE 4
\* the declared field order
FieldOrder(typ) == IF typ = "K2" THEN <<"u", "i">> ELSE <<"a", "b", "c", "d">>

NoCall == [op |-> "none"]
FreshHist == [calls |-> 0, succ |-> 0, last |-> NoCall]

(***************************************************************************)
(* maState: the state machine of a map assembler.                          *)
(***************************************************************************)
maState_initial == 0
maState_midKey == 1
maState_expectValue == 2
maState_midValue == 3
maState_finished == 4

\* the zero value K2{}
K2Zero == [u |-> "", i |-> ""]
\* the zero value T2{}
T2Zero == [a |-> 0, b |-> 0, c |-> 0, d |-> 0]
EntryKeys == {"u", "i", "z"}

(***************************************************************************)
(* _K2__Assembler.  Every method returns the struct as it leaves it (ma),  *)
(* the node under construction as it leaves it (w), the NodeAssembler      *)
(* returned (na), the error returned (e) and the panic raised (panic).     *)
(***************************************************************************)
K2_Assembler_AssignNode(a, wv, v) ==
    IF v.typ = "K2"
    THEN [ma |-> a, w |-> v.val, na |-> Nil, e |-> NoErr, panic |-> "none"]
    ELSE [ma |-> a, w |-> wv, na |-> Nil, e |-> NoErr,
          panic |-> "todo implement generic copy and use it here"]

\* AssembleEntry without the sanity check of the state
K2_Assembler_AssembleEntry_NoStateCheck(a, wv, k) ==
    LET a1 == [a EXCEPT !.state = maState_midValue]
    IN CASE k = "u" ->
              IF a1.isset_u
              THEN [ma |-> a1, w |-> wv, na |-> Nil,
                    e |-> ErrRepeatedMapKey(plainString("u")), panic |-> "none"]
              ELSE [ma |-> a1, w |-> wv, na |-> Nil, e |-> NoErr, panic |-> "todo"]
         [] k = "i" ->
              [ma |-> a1, w |-> wv, na |-> Nil, e |-> NoErr, panic |-> "todo"]
         [] OTHER ->
              [ma |-> a1, w |-> wv, na |-> Nil, e |-> NoErr,
               panic |-> "invalid field key"]

K2_Assembler_AssembleEntry(a, wv, k) ==
    IF a.state # maState_initial
    THEN [ma |-> a, w |-> wv, na |-> Nil, e |-> NoErr, panic |-> "misuse"]
    ELSE LET a1 == [a EXCEPT !.state = maState_midValue]
         IN CASE k = "u" ->
                   IF a1.isset_u
                   THEN [ma |-> a1, w |-> wv, na |-> Nil,
                         e |-> ErrRepeatedMapKey(plainString("u")), panic |-> "none"]
                   ELSE [ma |-> a1, w |-> wv, na |-> Nil, e |-> NoErr, panic |-> "todo"]
              [] k = "i" ->
                   [ma |-> a1, w |-> wv, na |-> Nil, e |-> NoErr, panic |-> "todo"]
              [] OTHER ->
                   [ma |-> a1, w |-> wv, na |-> Nil, e |-> NoErr,
                    panic |-> "invalid field key"]

\* AssembleKey that goes straight to expecting the value
K2_Assembler_AssembleKey_SkipsMidKey(a, wv) ==
    IF a.state # maState_initial
    THEN [ma |-> a, w |-> wv, na |-> Nil, e |-> NoErr, panic |-> "misuse"]
    ELSE [ma |-> [a EXCEPT !.state = maState_expectValue], w |-> wv, na |-> Nil,
          e |-> NoErr, panic |-> "todo"]

K2_Assembler_AssembleKey(a, wv) ==
    IF a.state # maState_initial
    THEN [ma |-> a, w |-> wv, na |-> Nil, e |-> NoErr, panic |-> "misuse"]
    ELSE [ma |-> [a EXCEPT !.state = maState_midKey], w |-> wv, na |-> Nil,
          e |-> NoErr, panic |-> "todo"]

K2_Assembler_AssembleValue(a, wv) ==
    IF a.state # maState_expectValue
    THEN [ma |-> a, w |-> wv, na |-> Nil, e |-> NoErr, panic |-> "misuse"]
    ELSE [ma |-> [a EXCEPT !.state = maState_midValue], w |-> wv, na |-> Nil,
          e |-> NoErr, panic |-> "todo"]

\* Finish without the sanity check of the state
K2_Assembler_Finish_NoStateCheck(a, wv) ==
    [ma |-> [a EXCEPT !.state = maState_finished], w |-> wv, na |-> Nil,
     e |-> NoErr, panic |-> "none"]

K2_Assembler_Finish(a, wv) ==
    IF a.state # maState_initial
    THEN [ma |-> a, w |-> wv, na |-> Nil, e |-> NoErr, panic |-> "misuse"]
    ELSE [ma |-> [a EXCEPT !.state = maState_finished], w |-> wv, na |-> Nil,
          e |-> NoErr, panic |-> "none"]

(***************************************************************************)
(* _T2__Assembler: a struct of the pointer w alone, without a state.       *)
(* Every method returns the node under construction as it leaves it (w),   *)
(* the assembler returned (na), the error (e) and the panic raised.        *)
(***************************************************************************)
\* the assembler itself, returned by BeginMap
T2_Assembler == [kind |-> "assembler", of |-> "T2"]

T2_Assembler_BeginMap(wv) ==
    [w |-> wv, na |-> T2_Assembler, e |-> NoErr, panic |-> "none"]

T2_Assembler_AssignNode(wv, v) ==
    IF v.typ = "T2"
    THEN [w |-> v.val, na |-> Nil, e |-> NoErr, panic |-> "none"]
    ELSE [w |-> wv, na |-> Nil, e |-> NoErr, panic |-> "later"]

T2_Assembler_AssembleEntry(wv, k) ==
    [w |-> wv, na |-> Nil, e |-> NoErr, panic |-> "soon"]

T2_Assembler_AssembleKey(wv) ==
    [w |-> wv, na |-> Nil, e |-> NoErr, panic |-> "soon"]

T2_Assembler_AssembleValue(wv) ==
    [w |-> wv, na |-> Nil, e |-> NoErr, panic |-> "soon"]

T2_Assembler_Finish(wv) ==
    [w |-> wv, na |-> Nil, e |-> NoErr, panic |-> "soon"]

\* the call returned normally with a nil error
Accepted(r) == r.panic = "none" /\ r.e = NoErr
\* the call was refused: it panicked or returned an error
Rejected(r) == ~Accepted(r)

(***************************************************************************)
(* Generic data-model nodes, as the selector parser reads them: a kind,    *)
(* and for a map its fields.  TraverseField, AsInt and ReprKind follow     *)
(* the Node contract of node.go (LookupString / AsInt / ReprKind).         *)
(***************************************************************************)
EmptyFields == [k \in {} |-> Nil]
GenInt(n) == [kind |-> ReprKind_Int, ival |-> n]
GenString(str) == [kind |-> ReprKind_String, sval |-> str]
GenList == [kind |-> ReprKind_List]
GenMap(f) == [kind |-> ReprKind_Map, fields |-> f]

Node_TraverseField(n, key) ==
    IF n.kind # ReprKind_Map
    THEN [node |-> Nil,
          e |-> ErrWrongKind("", "TraverseField", {ReprKind_Map}, n.kind)]
    ELSE IF key \in DOMAIN n.fields
         THEN [node |-> n.fields[key], e |-> NoErr]
         ELSE [node |-> Nil, e |-> [err |-> "ErrNotExists", Segment |-> key]]

Node_AsInt(n) ==
    IF n.kind = ReprKind_Int
    THEN [val |-> n.ival, e |-> NoErr]
    ELSE [val |-> 0, e |-> ErrWrongKind("", "AsInt", ReprKindSet_JustInt, n.kind)]

(***************************************************************************)
(* PathSegment (package selector): a string or an int.  A string segment   *)
(* is a sequence of characters; Index() of a string segment is             *)
(* strconv.Atoi, of an int segment the int itself.                         *)
(***************************************************************************)
PathSegmentString(str) == [seg |-> "string", S |-> str]
PathSegmentInt(n) == [seg |-> "int", I |-> n]

SegChars == {"0", "2", "x", "-"}
DigitVal == ("0" :> 0) @@ ("1" :> 1) @@ ("2" :> 2) @@ ("3" :> 3)
ErrSyntax == [err |-> "NumError", Func |-> "Atoi"]

RECURSIVE DigitsVal(_)
DigitsVal(ds) ==
    IF ds = <<>> THEN 0
    ELSE 10 * DigitsVal(SubSeq(ds, 1, Len(ds) - 1)) + DigitVal[ds[Len(ds)]]

Atoi(str) ==
    LET neg == Len(str) > 0 /\ str[1] = "-"
        ds == IF neg THEN Tail(str) ELSE str
    IN IF ds = <<>> \/ \E j \in 1..Len(ds) : ds[j] \notin DOMAIN DigitVal
       THEN [i |-> 0, e |-> ErrSyntax]
       ELSE [i |-> IF neg THEN 0 - DigitsVal(ds) ELSE DigitsVal(ds), e |-> NoErr]

PathSegment_Index(p) ==
    IF p.seg = "int" THEN [i |-> p.I, e |-> NoErr] ELSE Atoi(p.S)

(***************************************************************************)
(* Selectors.  Matcher stands for the selectors other than ExploreIndex.   *)
(***************************************************************************)
indexKey == "index"
nextSelectorKey == "next"
exploreIndexKey == "i"
matcherKey == "."

Matcher == [sel |-> "Matcher"]
ExploreIndex(next, interest) ==
    [sel |-> "ExploreIndex", next |-> next, interest |-> interest]

ParseRejected(msg) == [err |-> "errorString", msg |-> msg]

\* Interests that reports no segment of interest
ExploreIndex_Interests_None(sl) == <<>>

ExploreIndex_Interests(sl) == sl.interest

\* Explore without the check that the node is a list
ExploreIndex_Explore_NoKindCheck(sl, n, p) ==
    IF Len(sl.interest) = 0
    THEN [out |-> Nil, panic |-> "index out of range"]
    ELSE LET expected == PathSegment_Index(p)
             actual == PathSegment_Index(sl.interest[1])
         IN IF expected.e # NoErr \/ actual.e # NoErr \/ expected.i # actual.i
            THEN [out |-> Nil, panic |-> "none"]
            ELSE [out |-> sl.next, panic |-> "none"]

ExploreIndex_Explore(sl, n, p) ==
    IF n.kind # ReprKind_List
    THEN [out |-> Nil, panic |-> "none"]
    ELSE IF Len(sl.interest) = 0
         THEN [out |-> Nil, panic |-> "index out of range"]
         ELSE LET expected == PathSegment_Index(p)
                  actual == PathSegment_Index(sl.interest[1])
              IN IF expected.e # NoErr \/ actual.e # NoErr \/ expected.i # actual.i
                 THEN [out |-> Nil, panic |-> "none"]
                 ELSE [out |-> sl.next, panic |-> "none"]

\* Decide that matches the list nodes
ExploreIndex_Decide_MatchesLists(sl, n) == n.kind = ReprKind_List

ExploreIndex_Decide(sl, n) == FALSE

RECURSIVE ParseSelector(_)
RECURSIVE ParseExploreIndex(_)

ParseSelector(n) ==
    IF n.kind # ReprKind_Map
    THEN [sel |-> Nil,
          e |-> ParseRejected("selector spec parse rejected: selector is a keyed union and thus must be a map")]
    ELSE IF Cardinality(DOMAIN n.fields) # 1
         THEN [sel |-> Nil,
               e |-> ParseRejected("selector spec parse rejected: selector is a keyed union and thus must be single-entry map")]
         ELSE LET key == CHOOSE k \in DOMAIN n.fields : TRUE
                  body == n.fields[key]
              IN CASE key = exploreIndexKey -> ParseExploreIndex(body)
                   [] key = matcherKey -> [sel |-> Matcher, e |-> NoErr]
                   [] OTHER ->
                        [sel |-> Nil,
                         e |-> ParseRejected("selector spec parse rejected: unknown selector")]

\* the error of index.AsInt() is dropped
ParseExploreIndex_IgnoresAsIntError(n) ==
    IF n.kind # ReprKind_Map
    THEN [sel |-> Nil,
          e |-> ParseRejected("selector spec parse rejected: selector body must be a map")]
    ELSE LET ix == Node_TraverseField(n, indexKey)
         IN IF ix.e # NoErr
            THEN [sel |-> Nil,
                  e |-> ParseRejected("selector spec parse rejected: index field must be present in ExploreIndex selector")]
            ELSE LET iv == Node_AsInt(ix.node)
                     nx == Node_TraverseField(n, nextSelectorKey)
                 IN IF nx.e # NoErr
                    THEN [sel |-> Nil,
                          e |-> ParseRejected("selector spec parse rejected: next field must be present in ExploreIndex selector")]
                    ELSE LET inner == ParseSelector(nx.node)
                         IN IF inner.e # NoErr
                            THEN [sel |-> Nil, e |-> inner.e]
                            ELSE [sel |-> ExploreIndex(inner.sel,
                                             <<PathSegmentInt(iv.val)>>),
                                  e |-> NoErr]

\* the error of the recursive parse is replaced by one of ParseExploreIndex
ParseExploreIndex_WrapsInnerError(n) ==
    IF n.kind # ReprKind_Map
    THEN [sel |-> Nil,
          e |-> ParseRejected("selector spec parse rejected: selector body must be a map")]
    ELSE LET ix == Node_TraverseField(n, indexKey)
         IN IF ix.e # NoErr
            THEN [sel |-> Nil,
                  e |-> ParseRejected("selector spec parse rejected: index field must be present in ExploreIndex selector")]
            ELSE LET iv == Node_AsInt(ix.node)
                 IN IF iv.e # NoErr
                    THEN [sel |-> Nil,
                          e |-> ParseRejected("selector spec parse rejected: index field must be a number in ExploreIndex selector")]
                    ELSE LET nx == Node_TraverseField(n, nextSelectorKey)
                         IN IF nx.e # NoErr
                            THEN [sel |-> Nil,
                                  e |-> ParseRejected("selector spec parse rejected: next field must be present in ExploreIndex selector")]
                            ELSE LET inner == ParseSelector(nx.node)
                                 IN IF inner.e # NoErr
                                    THEN [sel |-> Nil,
                                          e |-> ParseRejected("selector spec parse rejected: next field must be a selector")]
                                    ELSE [sel |-> ExploreIndex(inner.sel,
                                                     <<PathSegmentInt(iv.val)>>),
                                          e |-> NoErr]

ParseExploreIndex(n) ==
    IF n.kind # ReprKind_Map
    THEN [sel |-> Nil,
          e |-> ParseRejected("selector spec parse rejected: selector body must be a map")]
    ELSE LET ix == Node_TraverseField(n, indexKey)
         IN IF ix.e # NoErr
            THEN [sel |-> Nil,
                  e |-> ParseRejected("selector spec parse rejected: index field must be present in ExploreIndex selector")]
            ELSE LET iv == Node_AsInt(ix.node)
                 IN IF iv.e # NoErr
                    THEN [sel |-> Nil,
                          e |-> ParseRejected("selector spec parse rejected: index field must be a number in ExploreIndex selector")]
                    ELSE LET nx == Node_TraverseField(n, nextSelectorKey)
                         IN IF nx.e # NoErr
                            THEN [sel |-> Nil,
                                  e |-> ParseRejected("selector spec parse rejected: next field must be present in ExploreIndex selector")]
                            ELSE LET inner == ParseSelector(nx.node)
                                 IN IF inner.e # NoErr
                                    THEN [sel |-> Nil, e |-> inner.e]
                                    ELSE [sel |-> ExploreIndex(inner.sel,
                                                     <<PathSegmentInt(iv.val)>>),
                                          e |-> NoErr]

(***************************************************************************)
(* The inputs of the selector operations.                                  *)
(***************************************************************************)
IndexVals == 0..MaxIndex
IndexOpts == {GenInt(n) : n \in IndexVals} \cup {GenString("x")}
MatcherSpec == GenMap(matcherKey :> GenMap(EmptyFields))
BogusSpec == GenMap("bogus" :> GenInt(1))

\* the parameter maps with any of the index / next fields, next drawn from nexts
Bodies(nexts) ==
    {GenMap(EmptyFields)}
    \cup {GenMap(indexKey :> ix) : ix \in IndexOpts}
    \cup {GenMap(nextSelectorKey :> nx) : nx \in nexts}
    \cup {GenMap((indexKey :> ix) @@ (nextSelectorKey :> nx)) :
             ix \in IndexOpts, nx \in nexts}

Nexts0 == {MatcherSpec, BogusSpec, GenInt(0)}
Nexts1 == Nexts0 \cup {GenMap(exploreIndexKey :> b) : b \in Bodies(Nexts0)}
ParseInputs == Bodies(Nexts1) \cup {GenInt(0), GenString("x"), GenList}

ExploreNodes == {GenList, GenMap(EmptyFields), GenInt(0)}

SegStrings == UNION {[1..len -> SegChars] : len \in 0..MaxSegLen}
PathSegments ==
    {PathSegmentString(str) : str \in SegStrings}
    \cup {PathSegmentInt(n) : n \in (0 - 1)..MaxIndex}

(***************************************************************************)
(* Initial conditions of the three parts of the state.                     *)
(***************************************************************************)
\* a completed node exists, no call was made on it
NodeIdle ==
    /\ nd \in Nodes
    /\ itr = [id \in ItrIds |-> Node_MapIterator(nd.typ)]
    /\ hist = [id \in ItrIds |-> FreshHist]
    /\ ret = NoCall

\* a _K2__Assembler{w: &K2{...}} in state maState_initial.  The struct has no
\* constructor; isset_u / isset_i record which fields of *w were assigned.
AsmInit ==
    /\ ma \in [state : {maState_initial}, isset_u : BOOLEAN, isset_i : BOOLEAN]
    /\ w \in [u : StrVals \cup {""}, i : StrVals \cup {""}]
    /\ (w.u # "") = ma.isset_u
    /\ (w.i # "") = ma.isset_i
    /\ tw = T2Zero
    /\ aret = NoCall

\* a _K2__Assembler as a method may be handed it: the struct is built by the
\* package's code, so its state is any of the five declared maState values
AsmAny ==
    /\ ma \in [state : maState_initial..maState_finished,
                isset_u : BOOLEAN, isset_i : BOOLEAN]
    /\ w \in [u : StrVals \cup {""}, i : StrVals \cup {""}]
    /\ (w.u # "") = ma.isset_u
    /\ (w.i # "") = ma.isset_i
    /\ tw = T2Zero
    /\ aret = NoCall

AsmIdle ==
    /\ ma = [state |-> maState_initial, isset_u |-> FALSE, isset_i |-> FALSE]
    /\ w = K2Zero
    /\ tw = T2Zero
    /\ aret = NoCall

\* no selector was parsed yet
SelInit ==
    /\ sin = Nil
    /\ sres = [sel |-> Nil, e |-> NoErr]
    /\ sret = NoCall

(***************************************************************************)
(* Actions on the iterators of the completed node: create an iterator in  *)
(* a slot, Next, Done; LookupString on the node between them.              *)
(***************************************************************************)
CallMapIterator(id) ==
    /\ itr' = [itr EXCEPT ![id] = Node_MapIterator(nd.typ)]
    /\ hist' = [hist EXCEPT ![id] = FreshHist]
    /\ ret' = [op |-> "MapIterator", id |-> id]
    /\ UNCHANGED <<nd, asmVars, selVars>>

\* Next that keeps the cursor in one place shared by all the iterators
SetCursor_Shared(its, id, idx) == [j \in DOMAIN its |-> [its[j] EXCEPT !.idx = idx]]

\* itr.idx++ : Next writes the cursor of its receiver
SetCursor(its, id, idx) == [its EXCEPT ![id].idx = idx]

CallNext(id) ==
    /\ hist[id].calls < NumFields(itr[id].typ) + MaxOverread
    /\ LET r == MapIterator_Next(itr[id])
           out == [op |-> "Next", id |-> id, k |-> r.k, v |-> r.v, e |-> r.e,
                   panic |-> r.panic]
       IN /\ itr' = SetCursor(itr, id, r.idx)
          /\ hist' = [hist EXCEPT ![id] =
                        [calls |-> @.calls + 1,
                         succ |-> IF r.e = NoErr /\ r.panic = "none"
                                  THEN @.succ + 1 ELSE @.succ,
                         last |-> out]]
          /\ ret' = out
    /\ UNCHANGED <<nd, asmVars, selVars>>

CallDone(id) ==
    /\ ret' = [op |-> "Done", id |-> id, done |-> MapIterator_Done(itr[id])]
    /\ UNCHANGED <<nd, itr, hist, asmVars, selVars>>

CallLookupString(key) ==
    /\ LET r == Node_LookupString(nd.typ, key)
       IN ret' = [op |-> "LookupString", key |-> key, node |-> r.node, e |-> r.e]
    /\ UNCHANGED <<nd, itr, hist, asmVars, selVars>>

IterNext ==
    \/ \E id \in ItrIds : CallMapIterator(id)
    \/ \E id \in ItrIds : CallNext(id)
    \/ \E id \in ItrIds : CallDone(id)
    \/ \E key \in LookupKeys : CallLookupString(key)

InitIter == NodeIdle /\ AsmIdle /\ SelInit
SpecIter == InitIter /\ [][IterNext]_vars

(***************************************************************************)
(* Actions on the completed node: the read-only Node methods.             *)
(***************************************************************************)
CallReprKind ==
    /\ ret' = [op |-> "ReprKind", kind |-> Node_ReprKind(nd.typ)]
    /\ UNCHANGED <<nd, itr, hist, asmVars, selVars>>

CallLength ==
    /\ ret' = [op |-> "Length", len |-> Node_Length(nd.typ)]
    /\ UNCHANGED <<nd, itr, hist, asmVars, selVars>>

CallLookupIndex(idx) ==
    /\ LET r == Node_LookupIndex(nd.typ, idx)
       IN ret' = [op |-> "LookupIndex", idx |-> idx, node |-> r.node, e |-> r.e]
    /\ UNCHANGED <<nd, itr, hist, asmVars, selVars>>

CallListIterator ==
    /\ ret' = [op |-> "ListIterator", it |-> Node_ListIterator(nd.typ)]
    /\ UNCHANGED <<nd, itr, hist, asmVars, selVars>>

CallIsUndefined ==
    /\ ret' = [op |-> "IsUndefined", b |-> Node_IsUndefined(nd.typ)]
    /\ UNCHANGED <<nd, itr, hist, asmVars, selVars>>

CallIsNull ==
    /\ ret' = [op |-> "IsNull", b |-> Node_IsNull(nd.typ)]
    /\ UNCHANGED <<nd, itr, hist, asmVars, selVars>>

CallAs(m) ==
    /\ LET r == Node_As(nd.typ, m)
       IN ret' = [op |-> m, val |-> r.val, e |-> r.e]
    /\ UNCHANGED <<nd, itr, hist, asmVars, selVars>>

NodeNext ==
    \/ CallReprKind
    \/ CallLength
    \/ \E key \in LookupKeys : CallLookupString(key)
    \/ \E idx \in 0..1 : CallLookupIndex(idx)
    \/ CallListIterator
    \/ CallIsUndefined
    \/ CallIsNull
    \/ \E m \in Accessors : CallAs(m)

InitNode == NodeIdle /\ AsmIdle /\ SelInit
SpecNode == InitNode /\ [][NodeNext]_vars

(***************************************************************************)
(* Actions on the K2 assembler.  AssignNode is handed the completed node   *)
(* nd: a *K2 or a *T2, one of which is a Node of another type.             *)
(***************************************************************************)
AsmRet(op, arg, r) ==
    [op |-> op, arg |-> arg, pre |-> ma, prew |-> w,
     na |-> r.na, e |-> r.e, panic |-> r.panic]

CallAssignNode ==
    /\ LET r == K2_Assembler_AssignNode(ma, w, nd)
       IN /\ ma' = r.ma
          /\ w' = r.w
          /\ aret' = AsmRet("AssignNode", nd.typ, r)
    /\ UNCHANGED <<tw, nodeVars, selVars>>

CallAssembleEntry(k) ==
    /\ LET r == K2_Assembler_AssembleEntry(ma, w, k)
       IN /\ ma' = r.ma
          /\ w' = r.w
          /\ aret' = AsmRet("AssembleEntry", k, r)
    /\ UNCHANGED <<tw, nodeVars, selVars>>

CallAssembleKey ==
    /\ LET r == K2_Assembler_AssembleKey(ma, w)
       IN /\ ma' = r.ma
          /\ w' = r.w
          /\ aret' = AsmRet("AssembleKey", "", r)
    /\ UNCHANGED <<tw, nodeVars, selVars>>

CallAssembleValue ==
    /\ LET r == K2_Assembler_AssembleValue(ma, w)
       IN /\ ma' = r.ma
          /\ w' = r.w
          /\ aret' = AsmRet("AssembleValue", "", r)
    /\ UNCHANGED <<tw, nodeVars, selVars>>

CallFinish ==
    /\ LET r == K2_Assembler_Finish(ma, w)
       IN /\ ma' = r.ma
          /\ w' = r.w
          /\ aret' = AsmRet("Finish", "", r)
    /\ UNCHANGED <<tw, nodeVars, selVars>>

(***************************************************************************)
(* Actions on the T2 assembler.                                            *)
(***************************************************************************)
T2AsmRet(op, arg, r) ==
    [op |-> op, arg |-> arg, prew |-> tw, na |-> r.na, e |-> r.e,
     panic |-> r.panic]

CallT2BeginMap ==
    /\ LET r == T2_Assembler_BeginMap(tw)
       IN /\ tw' = r.w
          /\ aret' = T2AsmRet("T2.BeginMap", "", r)
    /\ UNCHANGED <<ma, w, nodeVars, selVars>>

CallT2AssignNode ==
    /\ LET r == T2_Assembler_AssignNode(tw, nd)
       IN /\ tw' = r.w
          /\ aret' = T2AsmRet("T2.AssignNode", nd.typ, r)
    /\ UNCHANGED <<ma, w, nodeVars, selVars>>

CallT2AssembleEntry(k) ==
    /\ LET r == T2_Assembler_AssembleEntry(tw, k)
       IN /\ tw' = r.w
          /\ aret' = T2AsmRet("T2.AssembleEntry", k, r)
    /\ UNCHANGED <<ma, w, nodeVars, selVars>>

CallT2AssembleKey ==
    /\ LET r == T2_Assembler_AssembleKey(tw)
       IN /\ tw' = r.w
          /\ aret' = T2AsmRet("T2.AssembleKey", "", r)
    /\ UNCHANGED <<ma, w, nodeVars, selVars>>

CallT2AssembleValue ==
    /\ LET r == T2_Assembler_AssembleValue(tw)
       IN /\ tw' = r.w
          /\ aret' = T2AsmRet("T2.AssembleValue", "", r)
    /\ UNCHANGED <<ma, w, nodeVars, selVars>>

CallT2Finish ==
    /\ LET r == T2_Assembler_Finish(tw)
       IN /\ tw' = r.w
          /\ aret' = T2AsmRet("T2.Finish", "", r)
    /\ UNCHANGED <<ma, w, nodeVars, selVars>>

T2EntryKeys == {"a", "d", "z"}

AsmNext ==
    \/ CallAssignNode
    \/ \E k \in EntryKeys : CallAssembleEntry(k)
    \/ CallAssembleKey
    \/ CallAssembleValue
    \/ CallFinish
    \/ CallT2BeginMap
    \/ CallT2AssignNode
    \/ \E k \in T2EntryKeys : CallT2AssembleEntry(k)
    \/ CallT2AssembleKey
    \/ CallT2AssembleValue
    \/ CallT2Finish

InitAsm == NodeIdle /\ AsmInit /\ SelInit
SpecAsm == InitAsm /\ [][AsmNext]_vars

\* the same calls, on an assembler struct in any declared state
InitAsmAny == NodeIdle /\ AsmAny /\ SelInit
SpecAsmAny == InitAsmAny /\ [][AsmNext]_vars

(***************************************************************************)
(* Actions on the selector: parse a spec node, then Explore / Decide /     *)
(* Interests on the ExploreIndex the parse returned.                       *)
(***************************************************************************)
HasSelector == sres.sel # Nil

CallParseExploreIndex(n) ==
    /\ sin' = n
    /\ sres' = ParseExploreIndex(n)
    /\ sret' = [op |-> "ParseExploreIndex"]
    /\ UNCHANGED <<nodeVars, asmVars>>

CallExplore(n, p) ==
    /\ HasSelector
    /\ LET r == ExploreIndex_Explore(sres.sel, n, p)
       IN sret' = [op |-> "Explore", n |-> n, p |-> p, out |-> r.out,
                   panic |-> r.panic]
    /\ UNCHANGED <<sin, sres, nodeVars, asmVars>>

CallDecide(n) ==
    /\ HasSelector
    /\ sret' = [op |-> "Decide", n |-> n, out |-> ExploreIndex_Decide(sres.sel, n)]
    /\ UNCHANGED <<sin, sres, nodeVars, asmVars>>

CallInterests ==
    /\ HasSelector
    /\ sret' = [op |-> "Interests", out |-> ExploreIndex_Interests(sres.sel)]
    /\ UNCHANGED <<sin, sres, nodeVars, asmVars>>

SelNext ==
    \/ \E n \in ParseInputs : CallParseExploreIndex(n)
    \/ \E n \in ExploreNodes, p \in PathSegments : CallExplore(n, p)
    \/ \E n \in ExploreNodes : CallDecide(n)
    \/ CallInterests

InitSel ==
    /\ nd = [typ |-> "K2", val |-> [u |-> "x", i |-> "y"]]
    /\ itr = [id \in ItrIds |-> K2_MapIterator]
    /\ hist = [id \in ItrIds |-> FreshHist]
    /\ ret = NoCall
    /\ AsmIdle
    /\ SelInit
SpecSel == InitSel /\ [][SelNext]_vars

\* the zero value ExploreIndex{} of the exported type: nil next, nil interest
ExploreIndexZero == ExploreIndex(Nil, <<>>)

\* the same calls, the selector at hand being ExploreIndex{} until one is parsed
InitSelZero ==
    /\ nd = [typ |-> "K2", val |-> [u |-> "x", i |-> "y"]]
    /\ itr = [id \in ItrIds |-> K2_MapIterator]
    /\ hist = [id \in ItrIds |-> FreshHist]
    /\ ret = NoCall
    /\ AsmIdle
    /\ sin = Nil
    /\ sres = [sel |-> ExploreIndexZero, e |-> NoErr]
    /\ sret = NoCall
SpecSelZero == InitSelZero /\ [][SelNext]_vars


(***************************************************************************)
(* Properties of the completed nodes (SpecNode) and of their iterators     *)
(* (SpecIter).                                                             *)
(***************************************************************************)
Min(x, y) == IF x <= y THEN x ELSE y

\* C1: a fresh MapIterator over K2 (L = 2) or T2 (L = 4) returns exactly L
\* successful Next results, Done is false before each of them and true after
\* the L-th, and the (L+1)-th and every later Next returns ErrIteratorOverread
\* with nil key and nil value.
C1_ExactlyLThenOverread ==
    \A id \in ItrIds :
        LET L == NumFields(itr[id].typ)
            h == hist[id]
        IN /\ h.succ = Min(h.calls, L)
           /\ MapIterator_Done(itr[id]) = (h.calls >= L)
           /\ h.calls > L =>
                /\ h.last.e = ErrIteratorOverread
                /\ h.last.panic = "none"
                /\ h.last.k = Nil
                /\ h.last.v = Nil

C1_Witness ==
    \E id \in ItrIds :
        /\ itr[id].typ = "T2"
        /\ hist[id].calls = 5
        /\ hist[id].succ = 4
        /\ hist[id].last.e = ErrIteratorOverread
        /\ MapIterator_Done(itr[id])

\* the kind each scalar accessor reads
AccessorKind(m) ==
    CASE m = "AsBool" -> ReprKind_Bool [] m = "AsInt" -> ReprKind_Int
      [] m = "AsFloat" -> ReprKind_Float [] m = "AsString" -> ReprKind_String
      [] m = "AsBytes" -> ReprKind_Bytes [] m = "AsLink" -> ReprKind_Link

\* C5: every scalar accessor of a K2 or T2 node fails with ErrWrongKind whose
\* required-kind set is exactly the kind the accessor reads, whose actual kind
\* is map and whose method name is the accessor called.
C5_WrongKindNamesAccessorKind ==
    ret.op \in Accessors =>
        ret.e = ErrWrongKind(nd.typ, ret.op, {AccessorKind(ret.op)}, ReprKind_Map)

\* the successful Next calls a MapIterator makes before Done becomes true
RECURSIVE NextsUntilDone(_, _)
NextsUntilDone(it, fuel) ==
    IF fuel = 0 \/ MapIterator_Done(it) THEN 0
    ELSE LET r == MapIterator_Next(it)
         IN IF r.e # NoErr \/ r.panic # "none" THEN 0
            ELSE 1 + NextsUntilDone([it EXCEPT !.idx = r.idx], fuel - 1)

\* C6: Length() of a map node (K2, T2) is the number of entries of the map,
\* which is the number of successful Next calls of a fresh MapIterator before
\* Done; -1 is returned only by nodes that are neither map nor list.
C6_LengthIsEntryCount ==
    ret.op = "Length" =>
        /\ ret.len = NextsUntilDone(Node_MapIterator(nd.typ), NumFields(nd.typ) + 1)
        /\ ret.len = NumFields(nd.typ)
        /\ ret.len = 0 - 1 => Node_ReprKind(nd.typ) \notin {ReprKind_Map, ReprKind_List}

(***************************************************************************)
(* Properties of the K2 map assembler (SpecAsm).                           *)
(***************************************************************************)
AsmOps == {"AssembleEntry", "AssembleKey", "AssembleValue", "AssignNode", "Finish"}

\* C2: Finish succeeds only from state initial and then moves the state to
\* finished; once finished, every further AssembleEntry, AssembleKey,
\* AssembleValue, AssignNode or Finish call is rejected and the state stays
\* finished.
C2_FinishedIsTerminal ==
    /\ (aret.op = "Finish" /\ Accepted(aret)) =>
            /\ aret.pre.state = maState_initial
            /\ ma.state = maState_finished
    /\ (aret.op \in AsmOps /\ aret.pre.state = maState_finished) =>
            /\ Rejected(aret)
            /\ ma.state = maState_finished

\* the last call was made in a state for which the method's sanity check fails
MisuseCall ==
    \/ /\ aret.op \in {"AssembleEntry", "AssembleKey", "Finish"}
       /\ aret.pre.state # maState_initial
    \/ /\ aret.op = "AssembleValue"
       /\ aret.pre.state # maState_expectValue

IsSet(a, k) == IF k = "u" THEN a.isset_u ELSE a.isset_i

\* C4: for both fields "u" and "i", AssembleEntry(k) called when field k was
\* already assigned fails with ErrRepeatedMapKey carrying k, and the value
\* written by the first assignment is left intact.
C4_RepeatedKeyRejected ==
    ( /\ aret.op = "AssembleEntry"
      /\ aret.arg \in {"u", "i"}
      /\ aret.pre.state = maState_initial
      /\ IsSet(aret.pre, aret.arg) ) =>
        /\ aret.panic = "none"
        /\ aret.e = ErrRepeatedMapKey(plainString(aret.arg))
        /\ w = aret.prew

\* the assembler structs one call away from a
AsmSuccessors(a) ==
    {K2_Assembler_AssembleEntry(a, K2Zero, k).ma : k \in EntryKeys}
    \cup {K2_Assembler_AssignNode(a, K2Zero, v).ma : v \in Nodes}
    \cup {K2_Assembler_AssembleKey(a, K2Zero).ma,
          K2_Assembler_AssembleValue(a, K2Zero).ma,
          K2_Assembler_Finish(a, K2Zero).ma}

\* the assembler structs at most n calls away from those of S
RECURSIVE AsmReach(_, _)
AsmReach(S, n) ==
    IF n = 0 THEN S
    ELSE AsmReach(S \cup UNION {AsmSuccessors(a) : a \in S}, n - 1)

\* C10: the map assembler never gets stuck in a child-open state: from mid-key
\* a step leads to expect-value, from mid-value a step leads back to initial,
\* and from every reachable state some continuation of calls reaches finished.
C10_NeverStuckChildOpen ==
    /\ ma.state = maState_midKey =>
            \E a \in AsmSuccessors(ma) : a.state = maState_expectValue
    /\ ma.state = maState_midValue =>
            \E a \in AsmSuccessors(ma) : a.state = maState_initial
    /\ \E a \in AsmReach({ma}, 5) : a.state = maState_finished

(***************************************************************************)
(* Properties of ParseExploreIndex and ExploreIndex (SpecSel).             *)
(***************************************************************************)
Parsed == sin # Nil

\* C7: for the ExploreIndex parsed from a spec with index t and next selector
\* s, Explore(n, p) returns s if and only if n is a list and p converts to an
\* integer index equal to t; in every other case it returns nil.
C7_ExploreIffListAndIndex ==
    sret.op = "Explore" =>
        LET t == sin.fields[indexKey].ival
            s == ParseSelector(sin.fields[nextSelectorKey]).sel
            pidx == PathSegment_Index(sret.p)
            match == /\ sret.n.kind = ReprKind_List
                     /\ pidx.e = NoErr
                     /\ pidx.i = t
        IN /\ s # Nil
           /\ sret.panic = "none"
           /\ sret.out = IF match THEN s ELSE Nil

C7_Witness ==
    /\ sret.op = "Explore"
    /\ sret.p = PathSegmentString(<<"0", "2">>)
    /\ sret.n = GenList
    /\ sret.out = Matcher
    /\ sin.fields[indexKey].ival = 2

\* the conditions under which a spec node is a well-formed ExploreIndex body
WellFormed(n) ==
    /\ n.kind = ReprKind_Map
    /\ indexKey \in DOMAIN n.fields
    /\ n.fields[indexKey].kind = ReprKind_Int
    /\ nextSelectorKey \in DOMAIN n.fields
    /\ ParseSelector(n.fields[nextSelectorKey]).e = NoErr

\* C8: ParseExploreIndex(n) succeeds if and only if n is a map with an integer
\* `index` field and a `next` field that parses as a selector; the result then
\* has the `index` value as target index and the parse of `next` as next-step
\* selector.
C8_ParseSucceedsIffWellFormed ==
    Parsed =>
        /\ (sres.e = NoErr) = WellFormed(sin)
        /\ WellFormed(sin) =>
              sres.sel = ExploreIndex(ParseSelector(sin.fields[nextSelectorKey]).sel,
                                      <<PathSegmentInt(sin.fields[indexKey].ival)>>)

C8_Witness ==
    /\ Parsed
    /\ sres.e = NoErr
    /\ sres.sel.sel = "ExploreIndex"
    /\ sres.sel.next.sel = "ExploreIndex"
    /\ sres.sel.interest = <<PathSegmentInt(2)>>
    /\ sres.sel.next.interest = <<PathSegmentInt(1)>>

\* the error of the first violated check, in the order not-a-map, index
\* missing, index not an integer, next missing, next fails to parse
FirstViolated(n) ==
    IF n.kind # ReprKind_Map
    THEN ParseRejected("selector spec parse rejected: selector body must be a map")
    ELSE IF indexKey \notin DOMAIN n.fields
    THEN ParseRejected("selector spec parse rejected: index field must be present in ExploreIndex selector")
    ELSE IF n.fields[indexKey].kind # ReprKind_Int
    THEN ParseRejected("selector spec parse rejected: index field must be a number in ExploreIndex selector")
    ELSE IF nextSelectorKey \notin DOMAIN n.fields
    THEN ParseRejected("selector spec parse rejected: next field must be present in ExploreIndex selector")
    ELSE ParseSelector(n.fields[nextSelectorKey]).e

\* C9: a failing ParseExploreIndex returns a nil selector with a non-nil error;
\* the first violated check, in the order not-a-map, index missing, index not an
\* integer, next missing, next fails to parse, decides the error; when only the
\* parse of `next` fails the error is the inner parse's error, unchanged.
C9_FirstViolatedCheckDecides ==
    Parsed =>
        /\ (sres.e # NoErr) = (sres.sel = Nil)
        /\ sres.e = FirstViolated(sin)

C9_Witness ==
    /\ Parsed
    /\ sin.kind = ReprKind_Map
    /\ DOMAIN sin.fields = {indexKey, nextSelectorKey}
    /\ sin.fields[indexKey].kind = ReprKind_Int
    /\ sin.fields[nextSelectorKey] = GenMap(exploreIndexKey :> GenMap(indexKey :> GenString("x")))
    /\ sres.sel = Nil
    /\ sres.e = ParseRejected("selector spec parse rejected: index field must be a number in ExploreIndex selector")


(***************************************************************************)
(* The transitions of the map assembler's state machine (SpecAsmAny,       *)
(* SpecAsm).                                                               *)
(***************************************************************************)
\* the state in which the sanity check of the operation lets the call through
LegalState(op) ==
    IF op = "AssembleValue" THEN maState_expectValue ELSE maState_initial

\* the state the operation moves the assembler to
TargetState(op) ==
    IF op = "AssembleKey" THEN maState_midKey ELSE maState_midValue

ChildOpen(a) == a.state \in {maState_midKey, maState_midValue}

\* C12: while a child is open (mid-key or mid-value) the parent lets no
\* sibling call through: AssembleKey, AssembleEntry and Finish are each
\* refused with the misuse panic, return no assembler, and leave the
\* assembler and the node as they were, so the child stays open and no next
\* entry is begun.
C12_NoSiblingWhileChildOpen ==
    ( /\ aret.op \in {"AssembleKey", "AssembleEntry", "Finish"}
      /\ ChildOpen(aret.pre) ) =>
        /\ Rejected(aret)
        /\ aret.panic = "misuse"
        /\ aret.na = Nil
        /\ ma = aret.pre
        /\ ChildOpen(ma)
        /\ w = aret.prew

C12_Witness ==
    /\ aret.op = "AssembleEntry"
    /\ aret.arg = "i"
    /\ aret.pre.state = maState_midKey
    /\ aret.panic = "misuse"
    /\ ma.state = maState_midKey

(***************************************************************************)
(* Iteration order and independence of the iterators (SpecIter).           *)
(***************************************************************************)
\* C13: of any two MapIterators created independently over the same K2 or
\* T2 node, the n-th Next of one returned the same key, value and error as
\* the n-th Next of the other, for every n; and the n-th key is the n-th
\* field of the declared order (u, i for K2; a, b, c, d for T2), the value
\* the pointer to that field of the node.
C13_IndependentIteratorsAgree ==
    /\ \A id1, id2 \in ItrIds :
          (hist[id1].calls = hist[id2].calls /\ hist[id1].calls >= 1) =>
              /\ hist[id1].last.k = hist[id2].last.k
              /\ hist[id1].last.v = hist[id2].last.v
              /\ hist[id1].last.e = hist[id2].last.e
    /\ \A id \in ItrIds :
          LET c == hist[id].calls
              order == FieldOrder(nd.typ)
          IN (1 <= c /\ c <= Len(order)) =>
                /\ hist[id].last.panic = "none"
                /\ hist[id].last.e = NoErr
                /\ hist[id].last.k = plainString(order[c])
                /\ hist[id].last.v = FieldPtr(nd.typ, order[c])

C13_Witness ==
    /\ nd.typ = "T2"
    /\ hist[1].calls = 3
    /\ hist[2].calls = 3
    /\ ret.op = "Next"
    /\ ret.id = 2
    /\ hist[1].last.k = plainString("c")
    /\ hist[2].last.k = plainString("c")

\* C17: Done() returns false whenever at least one entry of the node was not
\* yet returned by Next and true exactly when all of them were returned; a
\* call of Done does not advance the cursor, which stays at the number of
\* entries returned.
C17_DoneIffAllReturned ==
    /\ \A id \in ItrIds : itr[id].idx = hist[id].succ
    /\ ret.op = "Done" =>
          /\ ret.done = (hist[ret.id].succ = NumFields(nd.typ))
          /\ hist[ret.id].succ < NumFields(nd.typ) => ret.done = FALSE

C17_Witness ==
    /\ ret.op = "Done"
    /\ ret.done = FALSE
    /\ nd.typ = "K2"
    /\ hist[ret.id].succ = 1
    /\ itr[ret.id].idx = 1

\* what the c-th Next of an iterator that runs alone over a node of type typ
\* returns: c calls of Next on a fresh iterator, one after the other
RECURSIVE AloneNth(_, _, _)
AloneNth(it, c, fuel) ==
    LET r == MapIterator_Next(it)
    IN IF c <= 1 \/ fuel = 0
       THEN r
       ELSE AloneNth([it EXCEPT !.idx = r.idx], c - 1, fuel - 1)

\* what LookupString returns on a node whose fields were never touched
LookupAlone(typ, key) ==
    IF \E j \in 1..Len(FieldOrder(typ)) : FieldOrder(typ)[j] = key
    THEN [node |-> FieldPtr(typ, key), e |-> NoErr]
    ELSE [node |-> Nil, e |-> ErrNoSuchField]

\* C20: with several MapIterators and lookups over the same node interleaved
\* in any order, a Next on one iterator changes neither the node nor the
\* cursor or history of another iterator; the c-th Next of every iterator
\* returned what the c-th Next of an iterator running alone returns; and
\* LookupString returns the same result before, between and after any
\* number of Next calls.
C20_InterleavingIsInvisible ==
    /\ [](\A id \in ItrIds :
            LET c == hist[id].calls
                alone == AloneNth(Node_MapIterator(nd.typ), c,
                                  NumFields(nd.typ) + MaxOverread)
            IN /\ itr[id].idx = Min(c, NumFields(nd.typ))
               /\ c >= 1 =>
                    /\ hist[id].last.k = alone.k
                    /\ hist[id].last.v = alone.v
                    /\ hist[id].last.e = alone.e
                    /\ hist[id].last.panic = alone.panic)
    /\ [](ret.op = "LookupString" =>
            /\ ret.node = LookupAlone(nd.typ, ret.key).node
            /\ ret.e = LookupAlone(nd.typ, ret.key).e)
    /\ [][\A id \in ItrIds :
            CallNext(id) =>
                /\ nd' = nd
                /\ \A o \in ItrIds \ {id} :
                      /\ itr'[o] = itr[o]
                      /\ hist'[o] = hist[o]]_vars

C20_Witness ==
    /\ nd.typ = "T2"
    /\ hist[1].calls = 3
    /\ hist[2].calls = 1
    /\ itr[1].idx = 3
    /\ itr[2].idx = 1
    /\ ret.op = "LookupString"
    /\ ret.key = "b"
    /\ ret.e = NoErr

(***************************************************************************)
(* Building a node through the assemblers (SpecAsm).                       *)
(***************************************************************************)
\* C14: in a round trip through the assembler, AssembleEntry of a declared
\* key that was not assembled yet, on an assembler with no child open,
\* returns the child assembler through which the value is assigned, and
\* Finish on an assembler with no child open returns nil; for the K2 and for
\* the T2 assembler.
C14_RoundTripEntryAndFinish ==
    /\ ( /\ aret.op = "AssembleEntry"
         /\ aret.arg \in {"u", "i"}
         /\ aret.pre.state = maState_initial
         /\ ~IsSet(aret.pre, aret.arg) ) =>
            (Accepted(aret) /\ aret.na # Nil)
    /\ ( /\ aret.op = "T2.AssembleEntry"
         /\ aret.arg \in {"a", "b", "c", "d"} ) =>
            (Accepted(aret) /\ aret.na # Nil)
    /\ (aret.op = "Finish" /\ aret.pre.state = maState_initial) => Accepted(aret)
    /\ aret.op = "T2.Finish" => Accepted(aret)

(***************************************************************************)
(* Explore and Decide on every ExploreIndex value (SpecSelZero, SpecSel).  *)
(***************************************************************************)
\* C15: Explore and Decide return normally, without a panic, for every
\* ExploreIndex value (the zero value ExploreIndex{} with its empty interest
\* list included), every node and every path segment, and leave the
\* selector as it was.
C15_ExploreDecideNeverRaise ==
    /\ sret.op = "Explore" => sret.panic = "none"
    /\ sret.op = "Decide" => sret.out \in BOOLEAN
    /\ (sret.op \in {"Explore", "Decide"} /\ ~Parsed) => sres.sel = ExploreIndexZero

\* C16: Decide(n) returns false for every node n, the list nodes that
\* Explore descends into included, whichever selector is at hand and
\* whichever Explore calls were made before.
C16_DecideAlwaysFalse ==
    sret.op = "Decide" => sret.out = FALSE

C16_Witness ==
    /\ sret.op = "Decide"
    /\ sret.n = GenList
    /\ sret.out = FALSE
    /\ Parsed
    /\ sres.sel # Nil
    /\ sres.sel.interest = <<PathSegmentInt(0)>>

\* C18: AssembleEntry with a key outside the declared fields {"u", "i"}, on
\* an assembler with no child open, is refused by an error value that the
\* call returns (it neither panics nor is accepted), and writes no field of
\* the node.
C18_UnknownKeyReturnsError ==
    ( /\ aret.op = "AssembleEntry"
      /\ aret.arg \notin {"u", "i"}
      /\ aret.pre.state = maState_initial ) =>
        /\ aret.panic = "none"
        /\ aret.e # NoErr
        /\ aret.na = Nil
        /\ w = aret.prew

\* C19: AssignNode is accepted only in state initial; handed a node of the
\* assembler's own type it makes the node under construction equal to it and
\* leaves the source as it was; and after the accepted call the assembler is
\* finished, so that a later AssignNode is refused.  For the K2 and for the
\* T2 assembler, whose node is T2{} until an AssignNode was accepted.
C19_AssignNodeCompletes ==
    /\ (aret.op = "AssignNode" /\ Accepted(aret)) =>
          /\ aret.pre.state = maState_initial
          /\ aret.arg = "K2"
          /\ w = nd.val
          /\ ma.state = maState_finished
    /\ (aret.op = "T2.AssignNode" /\ Accepted(aret)) =>
          /\ aret.arg = "T2"
          /\ tw = nd.val
          /\ aret.prew = T2Zero

(***************************************************************************)
(* Interests of a parsed ExploreIndex (SpecSel).                           *)
(***************************************************************************)
\* C21: for every ExploreIndex that a successful ParseExploreIndex returned
\* for a spec with index value k, Interests() is the list of exactly one
\* path segment, the integer segment k; it is that list in every state
\* reached by Explore and Decide calls after the parse, and a call of
\* Interests returns it.
C21_InterestsIsTheIndexSingleton ==
    (Parsed /\ sres.e = NoErr) =>
        LET k == sin.fields[indexKey].ival
        IN /\ ExploreIndex_Interests(sres.sel) = <<PathSegmentInt(k)>>
           /\ Len(ExploreIndex_Interests(sres.sel)) = 1
           /\ sret.op = "Interests" => sret.out = <<PathSegmentInt(k)>>

C21_Witness ==
    /\ Parsed
    /\ sres.e = NoErr
    /\ sin.fields[indexKey].ival = 2
    /\ sret.op = "Interests"
    /\ sret.out = <<PathSegmentInt(2)>>

(***************************************************************************)
(* The assembler after a refused entry (SpecAsm).                          *)
(***************************************************************************)
\* C22: when AssembleEntry returns an error (RepeatedMapKey) the assembler
\* struct is as it was before the call, in state initial, so that a
\* following AssembleEntry for another key and a following Finish pass the
\* state check.
C22_RefusedEntryLeavesStateInitial ==
    ( /\ aret.op = "AssembleEntry"
      /\ aret.panic = "none"
      /\ aret.e # NoErr ) =>
        /\ aret.pre.state = maState_initial
        /\ ma = aret.pre
        /\ ma.state = maState_initial
        /\ K2_Assembler_Finish(ma, w).panic = "none"
        /\ K2_Assembler_AssembleEntry(ma, w, "i").panic # "misuse"

(***************************************************************************)
(* The cursor of an iterator (SpecIter).                                   *)
(***************************************************************************)
\* C23: for every MapIterator over K2 (N = 2) or T2 (N = 4), after any
\* sequence of Next and Done calls the cursor idx satisfies 0 <= idx <= N and
\* no Next ran into the unreachable default branch of its switch; a Next
\* that returns ErrIteratorOverread leaves idx as it was; no Next and no Done
\* decreases idx, so an iterator whose Done is true stays so.
C23_CursorBoundedAndMonotone ==
    /\ [](\A id \in ItrIds :
            /\ 0 <= itr[id].idx
            /\ itr[id].idx <= NumFields(itr[id].typ)
            /\ hist[id].calls >= 1 => hist[id].last.panic = "none")
    /\ [][\A id \in ItrIds :
            (CallNext(id) \/ CallDone(id)) =>
                /\ itr'[id].idx >= itr[id].idx
                /\ MapIterator_Done(itr[id]) => MapIterator_Done(itr'[id])
                /\ (CallNext(id) /\ ret'.e = ErrIteratorOverread) =>
                        itr'[id].idx = itr[id].idx]_vars

C23_Witness ==
    \E id \in ItrIds :
        /\ itr[id].typ = "T2"
        /\ itr[id].idx = 4
        /\ hist[id].calls = 6
        /\ hist[id].last.e = ErrIteratorOverread
        /\ ret.op = "Done"
        /\ ret.id = id
        /\ ret.done = TRUE

(***************************************************************************)
(* Iteration and lookup of one node (SpecIter).                            *)
(***************************************************************************)
\* the entries a complete run of the iterator it returns: Next until Done
RECURSIVE RunEntries(_, _)
RunEntries(it, fuel) ==
    IF MapIterator_Done(it) \/ fuel = 0
    THEN {}
    ELSE LET r == MapIterator_Next(it)
         IN {[k |-> r.k, v |-> r.v]}
            \cup RunEntries([it EXCEPT !.idx = r.idx], fuel - 1)

\* C24: iteration and lookup of a K2 or T2 node agree: LookupString succeeds
\* for exactly the strings that are keys of a complete MapIterator run; for
\* such a key it returns the value node the iterator returned with that key
\* (also for the key that a Next of an iterator in use returned last); for
\* every other string it fails with the no-such-field error and a nil node,
\* and that error is not a WrongKind error.
C24_IterationAndLookupAgree ==
    LET run == RunEntries(Node_MapIterator(nd.typ), NumFields(nd.typ) + MaxOverread)
    IN /\ \A key \in LookupKeys :
             (Node_LookupString(nd.typ, key).e = NoErr)
                 <=> (\E en \in run : en.k = plainString(key))
       /\ \A en \in run :
             Node_LookupString(nd.typ, en.k.sval) = [node |-> en.v, e |-> NoErr]
       /\ ret.op = "LookupString" =>
             IF \E en \in run : en.k = plainString(ret.key)
             THEN /\ ret.e = NoErr
                  /\ \E en \in run : en.k = plainString(ret.key) /\ en.v = ret.node
             ELSE /\ ret.node = Nil
                  /\ ret.e = ErrNoSuchField
                  /\ ret.e.err # "ErrWrongKind"
       /\ \A id \in ItrIds :
             (hist[id].calls >= 1 /\ hist[id].last.e = NoErr) =>
                 Node_LookupString(nd.typ, hist[id].last.k.sval)
                     = [node |-> hist[id].last.v, e |-> NoErr]

C24_Witness ==
    /\ nd.typ = "K2"
    /\ hist[1].calls = 1
    /\ hist[1].last.k = plainString("u")
    /\ ret.op = "LookupString"
    /\ ret.key = "u"
    /\ ret.node = hist[1].last.v
    /\ ret.e = NoErr

====
